---- MODULE Spec2Model ----
(***************************************************************************)
(* Model of rohdescope/connection.py: one ScopeConnection (or RTMConnection *)
(* / RTOConnection) object used by several Python threads.                  *)
(*                                                                          *)
(* Every thread is a little interpreter of the methods of the class: pc is  *)
(* the statement it is at, stack the return points of the methods that      *)
(* called the current one.  One action is one step that reads or writes     *)
(* shared state (self.scope, self.firmware_version, self.lock, the          *)
(* transport, the clock); purely local statements are folded into the step  *)
(* that follows them.  A transport call (vxi11) takes two steps, its start  *)
(* and its end, so that other threads can run while it is in flight.        *)
(***************************************************************************)
EXTENDS Integers, Sequences, FiniteSets, TLC

\* ------------------------------------------------------------------ bounds
NThreads == 2        \* threads sharing the connection
MaxCalls == 3        \* public method calls made in one behaviour
MaxTime == 2         \* last value of the clock (timeit.default_timer), in seconds
MaxTimeout == 1      \* largest instrument_timeout, in seconds
MaxLog == 7          \* transport calls recorded per public call; later ones are not
MaxPolls == 2        \* polls of one wait() that are counted and recorded
MaxLen == 3          \* bytes of waveform payload in one block
MaxStrings == 2      \* blocks given to the per-channel parser
FairCalls == 2       \* public calls made under the fair specification

Threads == 1 .. NThreads

\* ------------------------------------------------------- python values
\* None for self.scope (handles are 1, 2, ...) and for an unused integer local.
None == 0
\* self.firmware_version is None or a non-empty tuple of integers; both None
\* and () are falsy in Python, and fw.split(".") never gives an empty tuple.
NoVersion == << >>

\* A reply of the instrument is a Python str: a sequence of characters.
Digits == <<"0", "1", "2", "3", "4", "5", "6", "7", "8", "9">>
IsDigit(c) == \E i \in 1 .. 10 : Digits[i] = c
DigitVal(c) == (CHOOSE i \in 1 .. 10 : Digits[i] = c) - 1
IsSpace(c) == c \in {" ", "\n", "\r", "\t"}

RECURSIVE LStrip(_)
LStrip(s) == IF s # << >> /\ IsSpace(Head(s)) THEN LStrip(Tail(s)) ELSE s

RECURSIVE RStrip(_)
RStrip(s) ==
  IF s # << >> /\ IsSpace(s[Len(s)]) THEN RStrip(SubSeq(s, 1, Len(s) - 1)) ELSE s

Strip(s) == RStrip(LStrip(s))

\* int(s): optional blanks, an optional sign, at least one digit.
Unsigned(s) == IF s # << >> /\ Head(s) \in {"+", "-"} THEN Tail(s) ELSE s

IsIntLiteral(s) ==
  LET u == Unsigned(Strip(s))
  IN  u # << >> /\ \A i \in 1 .. Len(u) : IsDigit(u[i])

RECURSIVE DigitsVal(_)
DigitsVal(u) ==
  IF u = << >> THEN 0
  ELSE 10 * DigitsVal(SubSeq(u, 1, Len(u) - 1)) + DigitVal(u[Len(u)])

IntOf(s) ==
  LET t == Strip(s)
  IN  IF Head(t) = "-" THEN 0 - DigitsVal(Unsigned(t)) ELSE DigitsVal(Unsigned(t))

\* s.split(sep): the pieces between the separators, empty pieces kept.
RECURSIVE Split(_, _)
Split(s, sep) ==
  IF \A i \in 1 .. Len(s) : s[i] # sep THEN << s >>
  ELSE LET k == CHOOSE i \in 1 .. Len(s) :
                  s[i] = sep /\ \A j \in 1 .. i - 1 : s[j] # sep
       IN  << SubSeq(s, 1, k - 1) >> \o Split(SubSeq(s, k + 1, Len(s)), sep)

\* sep.join(parts) on command strings.
RECURSIVE Join(_, _)
Join(parts, sep) ==
  IF parts = << >> THEN ""
  ELSE IF Len(parts) = 1 THEN parts[1]
  ELSE parts[1] \o sep \o Join(Tail(parts), sep)

\* ------------------------------------------------------------ exceptions
\* What a finished call left: a normal return or the exception that escaped.
\* Vxi11Exception(err, note) has exactly these two attributes.
Running == [type |-> "running", code |-> 0, note |-> ""]
Returned == [type |-> "return", code |-> 0, note |-> ""]
NotConnected == [type |-> "RuntimeError", code |-> 0, note |-> "not connected to the scope"]
NotInstanciated ==
  [type |-> "RuntimeError", code |-> 0, note |-> "Vxi11 Instrument not instanciated."]
AttributeError == [type |-> "AttributeError", code |-> 0, note |-> "NoneType"]
ValueError == [type |-> "ValueError", code |-> 0, note |-> ""]
KeyError == [type |-> "KeyError", code |-> 0, note |-> "instrument_timeout"]
NotImplementedError == [type |-> "NotImplementedError", code |-> 0, note |-> ""]
WaitTimeout == [type |-> "Vxi11Exception", code |-> 15, note |-> "wait"]
\* A failure of the transport itself (vxi11 raises Vxi11Exception with the
\* code of the RPC error and the name of the operation).
TransportError(op) == [type |-> "Vxi11Exception", code |-> 17, note |-> op]

\* ---------------------------------------------------- device families
Families == {"Scope", "RTM", "RTO"}

data_format(f) ==
  CASE f = "RTM" -> "UINT,8"
    [] f = "RTO" -> "INT,8"
    [] OTHER -> "uint8"

\* The commands configure() writes, in order: clear_buffer() for every
\* family, then the fast-export settings of RTOConnection.configure.
ConfigureCommands(f) ==
  IF f = "RTO"
  THEN << "*CLS", "EXPort:WAVeform:INCXvalues OFF", "EXPort:WAVeform:MULTichannel ON",
          "EXP:WAV:FAST ON", "FORMAT:DATA " \o data_format(f) >>
  ELSE << "*CLS" >>

\* prepare_command: a str is sent as it is, a list is joined with ";".
prepare_command(commands) ==
  IF commands.isstr THEN commands.parts[1] ELSE Join(commands.parts, ";")

Str(s) == [isstr |-> TRUE, parts |-> << s >>]
List(l) == [isstr |-> FALSE, parts |-> l]

\* What callers pass to ask() and write().
AskArguments == { Str("*ESR?"), List(<< "STAT:OPER:COND?", "*OPC?" >>) }
WriteArguments == { Str("RUN") }

\* ------------------------------------------------------------ transport
\* The instrument's possible answers to a query, as Python strings.
IdnReplies ==
  { << "R", ",", "R", "T", "O", ",", "1", ",", "2", ".", "1", "5" >>,
    << "R", ",", "R", "T", "O", ",", "1", ",", "2", ".", "x" >>,
    << "R", "T", "O" >> }
EsrReplies == { << "0" >>, << "1", "\n" >>, << "3", "2" >>, << "?" >> }
Replies(command) ==
  IF command = "*IDN?" THEN IdnReplies
  ELSE IF command = "*ESR?" THEN EsrReplies
  ELSE { << "1" >> }

\* ----------------------------------------------------------------- state
VARIABLES
  family,             \* the class of the connection object
  instrument_timeout, \* self._kwargs["instrument_timeout"], Absent if not given
  scope,              \* self.scope: None or the handle of a vxi11.Instrument
  firmware_version,   \* self.firmware_version
  lock,               \* self.lock: None when free, else the thread holding it
  opened,             \* number of vxi11.Instrument objects created so far
  closed,             \* the handles whose close() has returned
  shaken,             \* the handles on which the *IDN? handshake has completed
  now,                \* the clock read by time()
  calls,              \* number of public method calls made so far
  thr,                \* per thread: position, locals and record of the current call
  wave                \* a call of a parsing or converting method: arguments, outcome

\* What no method that talks to the instrument changes.
config == << family, instrument_timeout, wave >>
conn == << scope, firmware_version, lock, opened, closed, shaken >>
vars == << family, instrument_timeout, scope, firmware_version, lock, opened,
           closed, shaken, now, calls, thr, wave >>

\* instrument_timeout is given in milliseconds; Absent: the keyword was not given.
Absent == -1
MsPerSecond == 1000
Timeouts == {Absent} \cup { MsPerSecond * k : k \in 0 .. MaxTimeout }

\* A thread between two public calls.  pc, stack and the locals (commands,
\* command, handle, answer, connected, todo, channels, timeout) are the
\* interpreter's; api, busy, single, result, log, locked, started, evens and
\* entry record the current or last public call for the properties:
\*   log     the transport calls it started, in order (at most MaxLog)
\*   locked  whether it ever took the lock
\*   started the clock when wait() computed its deadline
\*   polls   the *ESR? queries wait() has started (MaxPolls + 1: more)
\*   evens   the polls of wait() that found the bit unset before the deadline
\*   entry   self.scope and self.firmware_version when it was called
\*   request the channels asked for, as a list
Idle ==
  [pc |-> "idle", stack |-> << >>, api |-> "none", commands |-> Str(""),
   command |-> "", handle |-> None, answer |-> << >>, connected |-> FALSE,
   todo |-> << >>, channels |-> << >>, request |-> << >>, timeout |-> 0, busy |-> FALSE,
   single |-> FALSE, result |-> Returned, log |-> << >>, locked |-> FALSE,
   started |-> 0, polls |-> 0, evens |-> 0,
   entry |-> [scope |-> None, firmware_version |-> NoVersion]]

\* No parsing or converting method has been called.
NoWave ==
  [op |-> "none", channels |-> << >>, string |-> << >>, strings |-> << >>,
   data |-> << >>, scales |-> << >>, positions |-> << >>,
   out |-> [type |-> "none", value |-> << >>]]

\* __init__: no handle, no firmware version, a free lock.
InitConnection ==
  /\ scope = None
  /\ firmware_version = NoVersion
  /\ lock = None
  /\ opened = 0
  /\ closed = {}
  /\ shaken = {}
  /\ now = 0
  /\ calls = 0
  /\ thr = [t \in Threads |-> Idle]

\* Several threads share a connection built with the longest timeout.
Init ==
  /\ family \in Families
  /\ instrument_timeout = MsPerSecond * MaxTimeout
  /\ InitConnection
  /\ wave = NoWave

\* One thread uses a connection built with any timeout, or none.
InitSeq ==
  /\ family \in Families
  /\ instrument_timeout \in Timeouts
  /\ InitConnection
  /\ wave = NoWave

\* ------------------------------------------------- calls, returns, raises
\* A public method is called: fresh locals, an empty record of the call.
Enter(api, pc) ==
  [Idle EXCEPT !.pc = pc, !.api = api, !.result = Running,
               !.entry = [scope |-> scope, firmware_version |-> firmware_version]]

\* The public call is over: the locals are gone, its record stays.
Finish(r, res) ==
  [Idle EXCEPT !.api = r.api, !.busy = r.busy, !.single = r.single, !.result = res,
               !.request = r.request,
               !.log = r.log, !.locked = r.locked, !.started = r.started,
               !.polls = r.polls, !.evens = r.evens, !.entry = r.entry]

\* A method calls another one and continues at `back` when it returns.
Call(r, pc, back) == [r EXCEPT !.pc = pc, !.stack = << back >> \o @]

\* return: back to the caller, or the public call is over.
Return(r) ==
  IF r.stack = << >> THEN Finish(r, Returned)
  ELSE [r EXCEPT !.pc = Head(r.stack), !.stack = Tail(@), !.handle = None]

\* raise: no method of the class catches anything, so the public call is over.
Raise(r, e) == Finish(r, e)

Logged(r, op, command) ==
  IF Len(r.log) < MaxLog /\ r.polls <= MaxPolls
  THEN [r EXCEPT !.log = Append(@, [op |-> op, command |-> command])]
  ELSE r

Step(t, r) == thr' = [thr EXCEPT ![t] = r]

\* A thread may start a public call.  Threads are interchangeable: thread
\* t + 1 makes its first call after thread t has made one.
CanCall(t) ==
  /\ thr[t].pc = "idle"
  /\ calls < MaxCalls
  /\ IF t = 1 THEN TRUE ELSE thr[t - 1].api # "none"

At(t, pc) == thr[t].pc = pc

\* ------------------------------------------------------------- the lock
\* threading.Lock: `with self.lock` blocks until the lock is free.
CanAcquire(t) == lock = None
\* (faulty variant: the lock still held after the block is left)
LockKeptOnReturn(t) == t
\* Leaving a `with self.lock` block, normally or by an exception.
LockAfterReturn(t) == None
\* (faulty variant: the lock released by hand, and not on the exception path)
LockKeptOnRaise(t) == lock
LockAfterRaise(t) == None

\* `with self.lock:` entered by thread t at `pc`, its body starts at `body`.
Acquire(t, pc, body) ==
  /\ At(t, pc)
  /\ CanAcquire(t)
  /\ lock' = t
  /\ Step(t, [thr[t] EXCEPT !.pc = body, !.locked = TRUE])
  /\ UNCHANGED << config, scope, firmware_version, opened, closed, shaken, now, calls >>

\* The start of a transport call on self.scope by thread t, inside a `with
\* self.lock` block: self.scope is read now; on None the attribute lookup
\* raises and the block is left.
BeginCall(t, pc, next, op, command) ==
  /\ At(t, pc)
  /\ IF scope = None
     THEN /\ lock' = LockAfterRaise(t)
          /\ Step(t, Raise(thr[t], AttributeError))
     ELSE /\ lock' = lock
          /\ Step(t, Logged([thr[t] EXCEPT !.pc = next, !.handle = scope], op, command))
  /\ UNCHANGED << config, scope, firmware_version, opened, closed, shaken, now, calls >>

\* `if not self.connected: raise RuntimeError(...)`, first half: self.scope.
CheckScope(t, pc, next) ==
  /\ At(t, pc)
  /\ IF scope = None
     THEN Step(t, Raise(thr[t], NotConnected))
     ELSE Step(t, [thr[t] EXCEPT !.pc = next])
  /\ UNCHANGED << config, conn, now, calls >>

\* ... second half: self.firmware_version; then prepare_command.
CheckVersion(t, pc, next) ==
  /\ At(t, pc)
  /\ IF firmware_version = NoVersion
     THEN Step(t, Raise(thr[t], NotConnected))
     ELSE Step(t, [thr[t] EXCEPT !.pc = next, !.command = prepare_command(thr[t].commands)])
  /\ UNCHANGED << config, conn, now, calls >>

\* ------------------------------------------------------------------ ask
ask(t) ==
  /\ CanCall(t)
  /\ \E c \in AskArguments : Step(t, [Enter("ask", "ask") EXCEPT !.commands = c])
  /\ calls' = calls + 1
  /\ UNCHANGED << config, conn, now >>

ask_connected(t) == CheckScope(t, "ask", "ask_fw")

ask_prepare(t) == CheckVersion(t, "ask_fw", "ask_lock")

ask_lock(t) == Acquire(t, "ask_lock", "ask_call")

ask_scope_ask(t) == BeginCall(t, "ask_call", "ask_wait", "ask", thr[t].command)

\* scope.ask returns the answer or raises; the block is left, ask returns.
ask_return(t) ==
  /\ At(t, "ask_wait")
  /\ \E ok \in BOOLEAN :
       IF ok
       THEN /\ lock' = LockAfterReturn(t)
            /\ \E a \in Replies(thr[t].command) :
                 Step(t, Return([thr[t] EXCEPT !.answer = a]))
       ELSE /\ lock' = LockAfterRaise(t)
            /\ Step(t, Raise(thr[t], TransportError("ask")))
  /\ UNCHANGED << config, scope, firmware_version, opened, closed, shaken, now, calls >>

\* ---------------------------------------------------------------- write
write(t) ==
  /\ CanCall(t)
  /\ \E c \in WriteArguments : Step(t, [Enter("write", "write") EXCEPT !.commands = c])
  /\ calls' = calls + 1
  /\ UNCHANGED << config, conn, now >>

write_connected(t) == CheckScope(t, "write", "write_fw")

write_prepare(t) == CheckVersion(t, "write_fw", "write_lock")

write_lock(t) == Acquire(t, "write_lock", "write_call")

write_scope_write(t) == BeginCall(t, "write_call", "write_wait", "write", thr[t].command)

write_return(t) ==
  /\ At(t, "write_wait")
  /\ \E ok \in BOOLEAN :
       IF ok
       THEN /\ lock' = LockAfterReturn(t)
            /\ Step(t, Return(thr[t]))
       ELSE /\ lock' = LockAfterRaise(t)
            /\ Step(t, Raise(thr[t], TransportError("write")))
  /\ UNCHANGED << config, scope, firmware_version, opened, closed, shaken, now, calls >>

\* -------------------------------------------------------------- connect
connect(t) ==
  /\ CanCall(t)
  /\ Step(t, Enter("connect", "connect"))
  /\ calls' = calls + 1
  /\ UNCHANGED << config, conn, now >>

\* connected = self.connected, that is self.scope and self.firmware_version:
\* the second attribute is read only if the first is truthy.
connect_connected(t) ==
  /\ At(t, "connect")
  /\ IF scope = None
     THEN Step(t, [thr[t] EXCEPT !.connected = FALSE, !.pc = "connect_scope"])
     ELSE Step(t, [thr[t] EXCEPT !.pc = "connect_fw"])
  /\ UNCHANGED << config, conn, now, calls >>

connect_connected_version(t) ==
  /\ At(t, "connect_fw")
  /\ Step(t, [thr[t] EXCEPT !.connected = (firmware_version # NoVersion),
                            !.pc = "connect_scope"])
  /\ UNCHANGED << config, conn, now, calls >>

\* if not self.scope:
connect_scope(t) ==
  /\ At(t, "connect_scope")
  /\ Step(t, [thr[t] EXCEPT !.pc = IF scope = None THEN "connect_open" ELSE "connect_version"])
  /\ UNCHANGED << config, conn, now, calls >>

\* self.scope = vxi11.Instrument(self._host, **self._kwargs)
connect_open(t) ==
  /\ At(t, "connect_open")
  /\ \E ok \in BOOLEAN :
       IF ok
       THEN /\ opened' = opened + 1
            /\ scope' = opened + 1
            /\ Step(t, Logged([thr[t] EXCEPT !.pc = "connect_version"], "open", ""))
       ELSE /\ UNCHANGED << opened, scope >>
            /\ Step(t, Raise(thr[t], TransportError("open")))
  /\ UNCHANGED << config, firmware_version, lock, closed, shaken, now, calls >>

\* (faulty variant: configure() run by every connect())
ConfigureAlways(r) == [r EXCEPT !.pc = "configure", !.todo = ConfigureCommands(family)]
\* What connect does once the firmware version is there:
\* if not connected: self.configure()
Configure(r) ==
  IF r.connected THEN Return(r)
  ELSE [r EXCEPT !.pc = "configure", !.todo = ConfigureCommands(family)]

\* if not self.firmware_version: ... = self.get_firmware_version()
connect_version(t) ==
  /\ At(t, "connect_version")
  /\ IF firmware_version = NoVersion
     THEN Step(t, Call(thr[t], "get_firmware_version", "connect_assign"))
     ELSE Step(t, Configure(thr[t]))
  /\ UNCHANGED << config, conn, now, calls >>

\* get_firmware_version: if not self.scope: raise RuntimeError(...)
get_firmware_version(t) ==
  /\ At(t, "get_firmware_version")
  /\ IF scope = None
     THEN Step(t, Raise(thr[t], NotInstanciated))
     ELSE Step(t, [thr[t] EXCEPT !.pc = "idn_lock"])
  /\ UNCHANGED << config, conn, now, calls >>

get_firmware_version_lock(t) == Acquire(t, "idn_lock", "idn_call")

get_firmware_version_ask(t) == BeginCall(t, "idn_call", "idn_wait", "ask", "*IDN?")

\* company, line, model, fw = idn.split(","); tuple(int(part) for part in fw.split("."))
IdnOk(idn) ==
  /\ Len(Split(idn, ",")) = 4
  /\ LET fw == Split(Split(idn, ",")[4], ".")
     IN  \A i \in 1 .. Len(fw) : IsIntLiteral(fw[i])

IdnVersion(idn) ==
  LET fw == Split(Split(idn, ",")[4], ".")
  IN  [i \in 1 .. Len(fw) |-> IntOf(fw[i])]

\* scope.ask("*IDN?") returns or raises; the block is left; the answer is parsed.
get_firmware_version_return(t) ==
  /\ At(t, "idn_wait")
  /\ \E ok \in BOOLEAN :
       IF ok
       THEN /\ lock' = LockAfterReturn(t)
            /\ \E idn \in Replies("*IDN?") :
                 IF IdnOk(idn)
                 THEN Step(t, Return([thr[t] EXCEPT !.answer = idn]))
                 ELSE Step(t, Raise(thr[t], ValueError))
       ELSE /\ lock' = LockAfterRaise(t)
            /\ Step(t, Raise(thr[t], TransportError("ask")))
  /\ UNCHANGED << config, scope, firmware_version, opened, closed, shaken, now, calls >>

\* self.firmware_version = <the value returned>: the handshake is complete
\* on the handle self.scope holds now.
connect_assign(t) ==
  /\ At(t, "connect_assign")
  /\ firmware_version' = IdnVersion(thr[t].answer)
  /\ shaken' = IF scope = None THEN shaken ELSE shaken \cup {scope}
  /\ Step(t, Configure([thr[t] EXCEPT !.answer = << >>]))
  /\ UNCHANGED << config, scope, lock, opened, closed, now, calls >>

\* configure(): one write() per command, in order.
configure(t) ==
  /\ At(t, "configure")
  /\ IF thr[t].todo = << >>
     THEN Step(t, Return(thr[t]))
     ELSE Step(t, Call([thr[t] EXCEPT !.commands = Str(Head(thr[t].todo)), !.todo = Tail(@)],
                       "write", "configure"))
  /\ UNCHANGED << config, conn, now, calls >>

\* ----------------------------------------------------------- disconnect
disconnect(t) ==
  /\ CanCall(t)
  /\ Step(t, Enter("disconnect", "disconnect"))
  /\ calls' = calls + 1
  /\ UNCHANGED << config, conn, now >>

\* if self.scope:
disconnect_scope(t) ==
  /\ At(t, "disconnect")
  /\ Step(t, [thr[t] EXCEPT !.pc = IF scope = None THEN "clear_scope" ELSE "close_lock"])
  /\ UNCHANGED << config, conn, now, calls >>

\* (faulty variant: close() called without waiting for the lock)
CloseWithoutLock(t) == TRUE
\* with self.lock: needed before close() is called
CloseNeedsLock(t) == CanAcquire(t)

disconnect_lock(t) ==
  /\ At(t, "close_lock")
  /\ CloseNeedsLock(t)
  /\ lock' = t
  /\ Step(t, [thr[t] EXCEPT !.pc = "close_call", !.locked = TRUE])
  /\ UNCHANGED << config, scope, firmware_version, opened, closed, shaken, now, calls >>

disconnect_close(t) == BeginCall(t, "close_call", "close_wait", "close", "")

\* close() returns (the handle is closed) or raises (it may or may not be).
disconnect_closed(t) ==
  /\ At(t, "close_wait")
  /\ \E ok \in BOOLEAN :
       IF ok
       THEN /\ lock' = LockAfterReturn(t)
            /\ closed' = closed \cup {thr[t].handle}
            /\ Step(t, [thr[t] EXCEPT !.pc = "clear_scope", !.handle = None])
       ELSE /\ lock' = LockAfterRaise(t)
            /\ \E done \in BOOLEAN :
                 closed' = IF done THEN closed \cup {thr[t].handle} ELSE closed
            /\ Step(t, Raise(thr[t], TransportError("close")))
  /\ UNCHANGED << config, scope, firmware_version, opened, shaken, now, calls >>

\* self.scope = None
disconnect_clear_scope(t) ==
  /\ At(t, "clear_scope")
  /\ scope' = None
  /\ Step(t, [thr[t] EXCEPT !.pc = "clear_version"])
  /\ UNCHANGED << config, firmware_version, lock, opened, closed, shaken, now, calls >>

\* (faulty variant: the cached version survives disconnect())
VersionKept == firmware_version
\* self.firmware_version = None
VersionAfterDisconnect == NoVersion

disconnect_clear_version(t) ==
  /\ At(t, "clear_version")
  /\ firmware_version' = VersionAfterDisconnect
  /\ Step(t, Return(thr[t]))
  /\ UNCHANGED << config, scope, lock, opened, closed, shaken, now, calls >>

\* ----------------------------------------------------------------- wait
\* The clock of the model stops at MaxTime: a busy wait is started only if
\* its deadline lies before that.
CanWait(busy) ==
  busy /\ instrument_timeout # Absent
    => now + instrument_timeout \div MsPerSecond < MaxTime

wait(t) ==
  /\ CanCall(t)
  /\ \E b \in BOOLEAN :
       /\ CanWait(b)
       /\ Step(t, [Enter("wait", "wait") EXCEPT !.busy = b])
  /\ calls' = calls + 1
  /\ UNCHANGED << config, conn, now >>

\* The deadline of the busy wait: timeout = instrument_timeout / 1000.0 + time()
Deadline(t) == instrument_timeout \div MsPerSecond + now

\* (faulty variant: the busy flag ignored, wait always polls)
wait_prepare_polling(t) ==
  /\ At(t, "wait")
  /\ IF instrument_timeout = Absent
     THEN Step(t, Raise(thr[t], KeyError))
     ELSE Step(t, Call([thr[t] EXCEPT !.timeout = Deadline(t), !.started = now,
                                      !.commands = Str("*OPC")],
                       "write", "wait_poll"))
  /\ UNCHANGED << config, conn, now, calls >>

\* if not busy: return self.ask("RUNS;*OPC?")
\* else the deadline is computed, then self.write("*OPC")
wait_prepare(t) ==
  /\ At(t, "wait")
  /\ IF ~ thr[t].busy
     THEN Step(t, [thr[t] EXCEPT !.pc = "ask", !.commands = Str("RUNS;*OPC?")])
     ELSE IF instrument_timeout = Absent
     THEN Step(t, Raise(thr[t], KeyError))
     ELSE Step(t, Call([thr[t] EXCEPT !.timeout = Deadline(t), !.started = now,
                                      !.commands = Str("*OPC")],
                       "write", "wait_poll"))
  /\ UNCHANGED << config, conn, now, calls >>

\* while not finished(): the lambda calls self.ask("*ESR?")
wait_poll(t) ==
  /\ At(t, "wait_poll")
  /\ Step(t, Call([thr[t] EXCEPT !.commands = Str("*ESR?"),
                                 !.polls = IF @ <= MaxPolls THEN @ + 1 ELSE @],
                  "ask", "wait_test"))
  /\ UNCHANGED << config, conn, now, calls >>

\* (faulty variant: the loop ends on the bit unset)
finishedOnEven(answer) == IntOf(answer) % 2 = 0
\* finished = lambda: int(self.ask("*ESR?")) % 2
finished(answer) == IntOf(answer) % 2 = 1

\* (faulty variant: the comparison turned around)
ExpiredBefore(t) == now < thr[t].timeout
\* if time() > timeout: raise Vxi11Exception(15, "wait")
Expired(t) == now > thr[t].timeout

\* (faulty variant: the timeout forgets the handshake)
wait_test_forgetting(t) ==
  /\ At(t, "wait_test")
  /\ IF ~ IsIntLiteral(thr[t].answer)
     THEN Step(t, Raise(thr[t], ValueError)) /\ UNCHANGED firmware_version
     ELSE IF finished(thr[t].answer)
     THEN Step(t, Return([thr[t] EXCEPT !.answer = << >>])) /\ UNCHANGED firmware_version
     ELSE IF Expired(t)
     THEN Step(t, Raise(thr[t], WaitTimeout)) /\ firmware_version' = NoVersion
     ELSE /\ Step(t, [thr[t] EXCEPT !.pc = "wait_poll", !.answer = << >>,
                                    !.evens = IF @ <= MaxPolls THEN @ + 1 ELSE @])
          /\ UNCHANGED firmware_version
  /\ UNCHANGED << config, scope, lock, opened, closed, shaken, now, calls >>

\* The loop test on the answer of the poll, then the deadline test.
wait_test(t) ==
  /\ At(t, "wait_test")
  /\ IF ~ IsIntLiteral(thr[t].answer)
     THEN Step(t, Raise(thr[t], ValueError))
     ELSE IF finished(thr[t].answer)
     THEN Step(t, Return([thr[t] EXCEPT !.answer = << >>]))
     ELSE IF Expired(t)
     THEN Step(t, Raise(thr[t], WaitTimeout))
     ELSE Step(t, [thr[t] EXCEPT !.pc = "wait_poll", !.answer = << >>,
                                 !.evens = IF @ <= MaxPolls THEN @ + 1 ELSE @])
  /\ UNCHANGED << config, conn, now, calls >>

\* -------------------------------------------------- get_waveform_string
\* The channels argument: a list, or a mapping channel -> enabled.
Chans(l) == [ismap |-> FALSE, list |-> l, map |-> << >>]
ChanMap(m) == [ismap |-> TRUE, list |-> << >>, map |-> m]
ChannelArguments == { Chans(<< >>), Chans(<< 2, 1 >>), ChanMap(<< TRUE, FALSE >>),
                      ChanMap(<< FALSE, FALSE >>) }

\* sorted(s) for a set of channel numbers.
RECURSIVE Sorted(_)
Sorted(S) ==
  IF S = {} THEN << >>
  ELSE LET m == CHOOSE x \in S : \A y \in S : x <= y
       IN  << m >> \o Sorted(S \ {m})

\* support_channel_dict: a mapping becomes the sorted list of its enabled keys.
support_channel_dict(channels) ==
  IF channels.ismap
  THEN Sorted({ k \in DOMAIN channels.map : channels.map[k] })
  ELSE channels.list

\* bool(channels) for the raw argument: a non-empty list or mapping.
Truthy(channels) ==
  IF channels.ismap THEN DOMAIN channels.map # {} ELSE channels.list # << >>

ChannelDigit(ch) == Digits[ch + 1]

\* The query of one exchange of get_waveform_string.
DataCommand(ch) ==
  IF family = "RTO" THEN "CHAN" \o ChannelDigit(ch) \o ":WAV1:DATA:VAL?"
  ELSE "CHAN" \o ChannelDigit(ch) \o ":DATA?"

get_waveform_string(t) ==
  /\ CanCall(t)
  /\ \E c \in ChannelArguments :
       Step(t, [Enter("get_waveform_string", "get_waveform_string")
                  EXCEPT !.channels = support_channel_dict(c),
                         !.request = support_channel_dict(c)])
  /\ calls' = calls + 1
  /\ UNCHANGED << config, conn, now >>

\* ScopeConnection: raise NotImplementedError.  RTM: for channel in channels.
\* RTO: if not channels: return "".
get_waveform_string_begin(t) ==
  /\ At(t, "get_waveform_string")
  /\ IF family = "Scope"
     THEN Step(t, Raise(thr[t], NotImplementedError))
     ELSE IF thr[t].channels = << >>
     THEN Step(t, Return(thr[t]))
     ELSE Step(t, [thr[t] EXCEPT !.pc = "data_lock"])
  /\ UNCHANGED << config, conn, now, calls >>

get_waveform_string_lock(t) == Acquire(t, "data_lock", "data_write")

get_waveform_string_write(t) ==
  BeginCall(t, "data_write", "data_written", "write", DataCommand(Head(thr[t].channels)))

\* (faulty variant: one `with self.lock` block per transport call)
LockPerCall(t) == None
\* The lock after scope.write has returned, before scope.read_raw: still held.
LockBetweenWriteAndRead(t) == lock

\* scope.write returns or raises.
get_waveform_string_written(t) ==
  /\ At(t, "data_written")
  /\ \E ok \in BOOLEAN :
       IF ok
       THEN /\ lock' = LockBetweenWriteAndRead(t)
            /\ Step(t, [thr[t] EXCEPT !.pc = "data_read", !.handle = None])
       ELSE /\ lock' = LockAfterRaise(t)
            /\ Step(t, Raise(thr[t], TransportError("write")))
  /\ UNCHANGED << config, scope, firmware_version, opened, closed, shaken, now, calls >>

get_waveform_string_read(t) ==
  BeginCall(t, "data_read", "data_reading", "read_raw", "")

\* scope.read_raw returns or raises; the block is left.  RTM goes on with the
\* next channel, RTO returns the one string.
get_waveform_string_return(t) ==
  /\ At(t, "data_reading")
  /\ \E ok \in BOOLEAN :
       IF ok
       THEN /\ lock' = LockAfterReturn(t)
            /\ IF family = "RTM" /\ Tail(thr[t].channels) # << >>
               THEN Step(t, [thr[t] EXCEPT !.pc = "data_lock", !.handle = None,
                                           !.channels = Tail(@)])
               ELSE Step(t, Return([thr[t] EXCEPT !.channels = << >>]))
       ELSE /\ lock' = LockAfterRaise(t)
            /\ Step(t, Raise(thr[t], TransportError("read_raw")))
  /\ UNCHANGED << config, scope, firmware_version, opened, closed, shaken, now, calls >>

\* -------------------------------------------------------- get_waveforms
\* get_waveforms -> get_waveform_data -> get_waveform_string, then
\* parse_waveform_string and convert_waveforms on what was read.
get_waveforms(t) ==
  /\ CanCall(t)
  /\ \E c \in ChannelArguments :
       Step(t, Call([Enter("get_waveforms", "get_waveform_string")
                       EXCEPT !.channels = support_channel_dict(c),
                              !.request = support_channel_dict(c)],
                    "get_waveform_string", "parse"))
  /\ calls' = calls + 1
  /\ UNCHANGED << config, conn, now >>

\* Parsing and converting touch no shared state; a malformed block raises.
get_waveforms_parse(t) ==
  /\ At(t, "parse")
  /\ \E ok \in BOOLEAN :
       IF ok \/ thr[t].request = << >>
       THEN Step(t, Return(thr[t]))
       ELSE Step(t, Raise(thr[t], ValueError))
  /\ UNCHANGED << config, conn, now, calls >>

\* ---------------------------------------------------- stamp_acquisition
\* RTMConnection.stamp_acquisition(channels, single=False) passes no busy
\* argument on: the base method then runs with busy=True.
stamp_acquisition(t) ==
  /\ CanCall(t)
  /\ \E c \in ChannelArguments, s \in BOOLEAN,
        b \in IF family = "RTM" THEN {TRUE} ELSE BOOLEAN :
       /\ Truthy(c) /\ s => CanWait(b)
       /\ Step(t, [Enter("stamp_acquisition", "stamp")
                  EXCEPT !.channels = support_channel_dict(c),
                         !.request = support_channel_dict(c),
                         !.single = s, !.busy = b,
                         !.pc = IF Truthy(c) /\ s THEN "stamp_run" ELSE "stamp_time"])
  /\ calls' = calls + 1
  /\ UNCHANGED << config, conn, now >>

\* (faulty variant: the wait left out)
stamp_acquisition_run_only(t) ==
  /\ At(t, "stamp_run")
  /\ Step(t, Call([thr[t] EXCEPT !.commands = Str("RUNS")], "write", "stamp_time"))
  /\ UNCHANGED << config, conn, now, calls >>

\* if channels and single: self.write("RUNS"); self.wait(busy)
stamp_acquisition_run(t) ==
  /\ At(t, "stamp_run")
  /\ Step(t, Call(Call([thr[t] EXCEPT !.commands = Str("RUNS")], "wait", "stamp_time"),
                  "write", "wait"))
  /\ UNCHANGED << config, conn, now, calls >>

\* return time(), self.get_waveform_string(channels): the clock is read first.
stamp_acquisition_time(t) ==
  /\ At(t, "stamp_time")
  /\ Step(t, Logged([thr[t] EXCEPT !.pc = "get_waveform_string"], "time", ""))
  /\ UNCHANGED << config, conn, now, calls >>

\* ---------------------------------------------------------------- clock
\* Time passes.  Only the loop of wait() compares the clock with a value
\* read earlier (its deadline), so only the time that passes during a busy
\* wait, up to the moment its deadline has passed, is modelled.
Waiting(t) == thr[t].pc # "idle" /\ thr[t].polls > 0 /\ now <= thr[t].timeout

Tick ==
  /\ now < MaxTime
  /\ \E t \in Threads : Waiting(t)
  /\ now' = now + 1
  /\ UNCHANGED << config, conn, calls, thr >>

\* ------------------------------------------------ parse_waveform_string
\* The data read from the instrument is a Python 2 str: a sequence of bytes
\* (0 .. 255).  The characters that occur in a block header, as bytes.
Ord(c) ==
  CASE IsDigit(c) -> 48 + DigitVal(c)
    [] c = "\t" -> 9
    [] c = "\n" -> 10
    [] c = "\r" -> 13
    [] c = " " -> 32
    [] c = "#" -> 35
    [] c = "+" -> 43
    [] c = "-" -> 45
    [] c = "A" -> 65

Characters == { "0", "1", "2", "3", "4", "5", "6", "7", "8", "9",
                "\t", "\n", "\r", " ", "#", "+", "-", "A" }

\* The character of a byte, for int(): digits, signs and blanks matter, every
\* other byte is just not one of them.
Chr(b) ==
  IF \E c \in Characters : Ord(c) = b
  THEN CHOOSE c \in Characters : Ord(c) = b
  ELSE "?"

Bytes(text) == [i \in 1 .. Len(text) |-> Ord(text[i])]
Text(bytes) == [i \in 1 .. Len(bytes) |-> Chr(bytes[i])]

Min(a, b) == IF a <= b THEN a ELSE b
Max(a, b) == IF a >= b THEN a ELSE b

\* s[start:stop:step] for start >= 0 and step >= 1: a negative stop counts
\* from the end, both ends are clamped to the string.
PySlice(s, start, stop, step) ==
  LET n == Len(s)
      lo == Min(start, n)
      hi == IF stop < 0 THEN Max(stop + n, 0) ELSE Min(stop, n)
      count == IF hi > lo THEN (hi - lo + step - 1) \div step ELSE 0
  IN  [k \in 1 .. count |-> s[lo + (k - 1) * step + 1]]

\* dtype = self.data_format.replace(',', '').lower()
dtype(f) == IF data_format(f) = "INT,8" THEN "int8" ELSE "uint8"

\* numpy.fromstring(substring, dtype=dtype): one sample per byte.
fromstring(substring, dt) ==
  [k \in 1 .. Len(substring) |->
     IF dt = "int8" /\ substring[k] >= 128 THEN substring[k] - 256 ELSE substring[k]]

\* What a parsing or converting method gives: its value or its exception.
Value(v) == [type |-> "return", value |-> v]
Error(e) == [type |-> e, value |-> << >>]

\* The dictionary built by result[channel] = ... for each channel in turn.
Dict(channels, items) ==
  [c \in { channels[i] : i \in 1 .. Len(channels) } |->
     items[CHOOSE i \in 1 .. Len(channels) :
             channels[i] = c /\ \A j \in i + 1 .. Len(channels) : channels[j] # c]]

\* (faulty variant: the slice runs to the end of the string)
SubstringToEnd(string, index, data_length, channel_number) ==
  PySlice(string, index, Len(string), channel_number)
\* substring = string[index:data_length:channel_number], index from 0
Substring(string, index, data_length, channel_number) ==
  PySlice(string, index, data_length, channel_number)

\* ScopeConnection.parse_waveform_string(channels, string), channels a list.
parse_waveform_string(f, channels, string) ==
  LET channel_number == Len(channels)
  IN  IF channel_number = 0 \/ string = << >> THEN Value(<< >>)
      ELSE IF Len(string) < 2 THEN Error("IndexError")
      ELSE IF ~ IsIntLiteral(Text(<< string[2] >>)) THEN Error("ValueError")
      ELSE LET data_length_length == IntOf(Text(<< string[2] >>))
               field == PySlice(string, 2, 2 + data_length_length, 1)
           IN  IF ~ IsIntLiteral(Text(field)) THEN Error("ValueError")
               ELSE LET data_length == IntOf(Text(field))
                        rest == PySlice(string, 2 + data_length_length, Len(string), 1)
                        items == [i \in 1 .. channel_number |->
                                    fromstring(Substring(rest, i - 1, data_length,
                                                         channel_number), dtype(f))]
                    IN  Value(Dict(channels, items))

\* dict.update
Update(d, e) == [c \in DOMAIN d \cup DOMAIN e |-> IF c \in DOMAIN e THEN e[c] ELSE d[c]]

\* RTMConnection.parse_waveform_string(channels, strings): the base parser on
\* each pair of zip(channels, strings), in order; the first error ends it.
RECURSIVE parse_pairs(_, _, _, _, _)
parse_pairs(f, channels, strings, i, result) ==
  IF i > Min(Len(channels), Len(strings)) THEN Value(result)
  ELSE LET dct == parse_waveform_string(f, << channels[i] >>, strings[i])
       IN  IF dct.type # "return" THEN dct
           ELSE parse_pairs(f, channels, strings, i + 1, Update(result, dct.value))

RTM_parse_waveform_string(f, channels, strings) ==
  parse_pairs(f, channels, strings, 1, << >>)

\* ---------------------------------------------------- convert_waveforms
\* The doubles of convert_waveforms, as exact fractions n / d with d > 0.
Rat(n, d) == [n |-> n, d |-> d]
RatMul(a, b) == Rat(a.n * b.n, a.d * b.d)
RatSub(a, b) == Rat(a.n * b.d - b.n * a.d, a.d * b.d)
RatEq(a, b) == a.n * b.d = b.n * a.d

\* An optional argument: None, or a mapping from channels.
NoArgument == [given |-> FALSE, map |-> << >>]
Given(m) == [given |-> TRUE, map |-> m]

\* (faulty variant: the unsigned range whatever the sample type)
iinfo_unsigned(dt) == [min |-> 0, max |-> 255]
\* numpy.iinfo(data.dtype)
iinfo(dt) ==
  IF dt = "int8" THEN [min |-> 0 - 128, max |-> 127] ELSE [min |-> 0, max |-> 255]

\* The body of the loop, for one sample of one channel.
convert_sample(dt, sample, channel, scales, positions) ==
  LET info == iinfo(dt)
      data_median == RatMul(Rat(info.max + info.min, 1), Rat(1, 2))
      tenth == RatMul(Rat(10, 1), Rat(1, info.max - info.min))
      factor == IF scales.given THEN RatMul(tenth, scales.map[channel]) ELSE tenth
      position == IF positions.given
                  THEN RatMul(positions.map[channel], scales.map[channel])
                  ELSE Rat(0, 1)
  IN  RatSub(RatMul(RatSub(Rat(sample, 1), data_median), factor), position)

\* convert_waveforms(data_dict, scales, positions); the samples of data_dict
\* have the type dt.  positions without scales: scales[channel] on None.
convert_waveforms(dt, data_dict, scales, positions) ==
  IF DOMAIN data_dict # {} /\ positions.given /\ ~ scales.given
  THEN Error("TypeError")
  ELSE Value([c \in DOMAIN data_dict |->
                [k \in 1 .. Len(data_dict[c]) |->
                   convert_sample(dt, data_dict[c][k], c, scales, positions)]])

\* The blocks given to the parser.  A payload is a few bytes, among them the
\* ends and the middle of the 8-bit range.
SampleBytes == { 0, 127, 128, 255 }
Payloads == UNION { [1 .. n -> SampleBytes] : n \in 0 .. MaxLen }

\* The decimal digits of n >= 0, as bytes.
RECURSIVE Decimal(_)
Decimal(n) ==
  IF n < 10 THEN << Ord(Digits[n + 1]) >>
  ELSE Decimal(n \div 10) \o << Ord(Digits[(n % 10) + 1]) >>

\* A well-formed block: marker, length of the length, length, payload.
Frame(payload) ==
  Bytes(<< "#" >>) \o Decimal(Len(Decimal(Len(payload)))) \o Decimal(Len(payload))
    \o payload

\* What may follow the payload: nothing, or the terminator of the message.
Trailers == { << >>, Bytes(<< "\n" >>) }

\* Other beginnings of a block: cut short, not numeric, a length that need
\* not be the number of bytes that follow, a length int() accepts with a
\* blank or a sign.
OddHeaders ==
  { << >>, Bytes(<< "#" >>), Bytes(<< "#", "A" >>), Bytes(<< "#", "0" >>),
    Bytes(<< "#", "1", "A" >>), Bytes(<< "#", "1", "2" >>),
    Bytes(<< "#", "2", "0", "2" >>), Bytes(<< "#", "2", " ", "1" >>),
    Bytes(<< "#", "2", "-", "1" >>) }

Blocks ==
  { Frame(p) \o t : p \in Payloads, t \in Trailers }
    \cup { h \o p \o t : h \in OddHeaders, p \in Payloads, t \in Trailers }

\* A call of parse_waveform_string is about to be made.
ParseInputs ==
  { [NoWave EXCEPT !.op = "parse_waveform_string",
                   !.channels = support_channel_dict(c), !.string = b] :
      c \in ChannelArguments, b \in Blocks }

\* The lists of blocks given to the per-channel parser: as many as channels,
\* fewer or more; blocks with and without bytes, one empty, one not numeric.
FewBlocks ==
  { << >>, Frame(<< >>), Frame(<< 0 >>), Frame(<< 255, 128 >>) \o Bytes(<< "\n" >>),
    Bytes(<< "#", "A" >>) }

BlockLists == UNION { [1 .. n -> FewBlocks] : n \in 0 .. MaxStrings }

RTMParseInputs ==
  { [NoWave EXCEPT !.op = "parse_waveform_string",
                   !.channels = support_channel_dict(c), !.strings = l] :
      c \in ChannelArguments, l \in BlockLists }

\* The arguments of convert_waveforms: every raw sample of the 8-bit range
\* for one channel, and one acquisition of two channels; scales and
\* positions given or not.
RawBytes == 0 .. 255
Scales == { Rat(1, 2), Rat(2, 1) }
Positions == { Rat(0 - 1, 1), Rat(3, 2) }

DataDicts(dt) ==
  { [c \in {1} |-> fromstring(<< b >>, dt)] : b \in RawBytes }
    \cup { [c \in {1, 2} |-> fromstring(IF c = 1 THEN << 0, 255 >> ELSE << 128 >>, dt)] }

Arguments(channels, values) ==
  { NoArgument } \cup { Given(m) : m \in [channels -> values] }

ConvertInputs ==
  UNION { { [NoWave EXCEPT !.op = "convert_waveforms", !.data = d,
                            !.scales = s, !.positions = p] :
              s \in Arguments(DOMAIN d, Scales), p \in Arguments(DOMAIN d, Positions) } :
          d \in DataDicts(dtype(family)) }

Pending(op) == wave.op = op /\ wave.out.type = "none"
Done(op) == wave.op = op /\ wave.out.type # "none"

\* The call is made on a ScopeConnection or an RTOConnection (RTMConnection
\* overrides the method).
call_parse_waveform_string ==
  /\ Pending("parse_waveform_string")
  /\ family # "RTM"
  /\ wave' = [wave EXCEPT !.out = parse_waveform_string(family, wave.channels, wave.string)]
  /\ UNCHANGED << family, instrument_timeout, conn, now, calls, thr >>

call_RTM_parse_waveform_string ==
  /\ Pending("parse_waveform_string")
  /\ family = "RTM"
  /\ wave' = [wave EXCEPT
                !.out = RTM_parse_waveform_string(family, wave.channels, wave.strings)]
  /\ UNCHANGED << family, instrument_timeout, conn, now, calls, thr >>

call_convert_waveforms ==
  /\ Pending("convert_waveforms")
  /\ wave' = [wave EXCEPT
                !.out = convert_waveforms(dtype(family), wave.data, wave.scales,
                                          wave.positions)]
  /\ UNCHANGED << family, instrument_timeout, conn, now, calls, thr >>

\* ------------------------------------------------------- specification
\* The methods that make one transport exchange at a time, and those built
\* from them.
Method(t) ==
  \/ ask(t) \/ ask_connected(t) \/ ask_prepare(t) \/ ask_lock(t)
  \/ ask_scope_ask(t) \/ ask_return(t)
  \/ write(t) \/ write_connected(t) \/ write_prepare(t) \/ write_lock(t)
  \/ write_scope_write(t) \/ write_return(t)
  \/ connect(t) \/ connect_connected(t) \/ connect_connected_version(t)
  \/ connect_scope(t) \/ connect_open(t) \/ connect_version(t)
  \/ get_firmware_version(t) \/ get_firmware_version_lock(t)
  \/ get_firmware_version_ask(t) \/ get_firmware_version_return(t)
  \/ connect_assign(t) \/ configure(t)
  \/ disconnect(t) \/ disconnect_scope(t) \/ disconnect_lock(t)
  \/ disconnect_close(t) \/ disconnect_closed(t)
  \/ disconnect_clear_scope(t) \/ disconnect_clear_version(t)
  \/ wait(t) \/ wait_prepare(t) \/ wait_poll(t) \/ wait_test(t)
  \/ get_waveform_string(t) \/ get_waveform_string_begin(t)
  \/ get_waveform_string_lock(t) \/ get_waveform_string_write(t)
  \/ get_waveform_string_written(t) \/ get_waveform_string_read(t)
  \/ get_waveform_string_return(t)

Acquisition(t) ==
  \/ get_waveforms(t) \/ get_waveforms_parse(t)
  \/ stamp_acquisition(t) \/ stamp_acquisition_run(t) \/ stamp_acquisition_time(t)

\* Several threads on one connection.
Next == Tick \/ \E t \in Threads : Method(t)

Spec == Init /\ [][Next]_vars

\* One thread: the calls follow one another.
NextSeq == Tick \/ Method(1) \/ Acquisition(1)

SpecSeq == InitSeq /\ [][NextSeq]_vars

\* The steps a thread makes inside wait(): those of wait itself and of the
\* write and the ask it calls.
Polling(t) ==
  \/ wait_prepare(t) \/ wait_poll(t) \/ wait_test(t)
  \/ ask_connected(t) \/ ask_prepare(t) \/ ask_lock(t) \/ ask_scope_ask(t) \/ ask_return(t)
  \/ write_connected(t) \/ write_prepare(t) \/ write_lock(t) \/ write_scope_write(t)
  \/ write_return(t)

\* The same, with a clock that advances while wait() polls and a thread that
\* runs while it is inside wait(): the interpreter schedules a thread that can
\* run, and a transport call returns or raises.
SpecLive == InitSeq /\ [][NextSeq]_vars /\ WF_vars(Tick) /\ WF_vars(Polling(1))

\* The parsing and converting methods, called on arguments of every kind.
WaveInputs ==
  (IF family = "RTM" THEN RTMParseInputs ELSE ParseInputs) \cup ConvertInputs

InitParse ==
  /\ family \in Families
  /\ instrument_timeout = Absent
  /\ InitConnection
  /\ wave \in WaveInputs

NextParse ==
  \/ call_parse_waveform_string
  \/ call_RTM_parse_waveform_string
  \/ call_convert_waveforms

SpecParse == InitParse /\ [][NextParse]_vars

\* ------------------------------------------------------------ properties
\* Where a thread is.
InBlock(t) ==
  thr[t].pc \in { "ask_call", "ask_wait", "write_call", "write_wait", "idn_call",
                  "idn_wait", "close_call", "close_wait", "data_write",
                  "data_written", "data_read", "data_reading" }

\* Inside one call of the transport (it has started and not yet ended).
InTransport(t) ==
  thr[t].pc \in { "ask_wait", "write_wait", "idn_wait", "close_wait", "data_written",
                  "data_reading" }

\* Inside an exchange of ask, write or get_waveform_string: a scope.ask, a
\* scope.write, or a scope.write up to the end of its scope.read_raw.
InExchange(t) ==
  thr[t].pc \in { "ask_wait", "write_wait", "data_written", "data_read", "data_reading" }

IsTransportCall(e) == e.op \in { "open", "ask", "write", "read_raw", "close" }
TransportCalls(log) == SelectSeq(log, IsTransportCall)
IsCommand(e, c) == e.command = c
Count(log, c) == Len(SelectSeq(log, LAMBDA e : IsCommand(e, c)))

Over(t) == thr[t].pc = "idle"
EntryConnected(t) ==
  thr[t].entry.scope # None /\ thr[t].entry.firmware_version # NoVersion
EntryDisconnected(t) ==
  thr[t].entry.scope = None /\ thr[t].entry.firmware_version = NoVersion

\* C1: every exchange of ask, write and get_waveform_string (a scope.ask, a
\* scope.write, a scope.write with its scope.read_raw) runs with the lock held
\* by its thread, and while it runs no other thread is inside a transport
\* call or an exchange.
C1_ExchangeUnderLock ==
  \A t \in Threads :
    InExchange(t) =>
      /\ lock = t
      /\ \A u \in Threads \ {t} : ~ InTransport(u) /\ ~ InExchange(u)

\* A thread is between the write and the read_raw of its exchange while
\* another one wants the lock for its own.
C1_Witness ==
  \E t, u \in Threads :
    /\ thr[t].pc = "data_read"
    /\ thr[u].pc \in { "ask_lock", "write_lock", "data_lock" }

\* C2: the lock is released on every way out of a `with self.lock` block, an
\* exception included: a thread outside such a block never holds the lock, so
\* when no thread is inside one the lock is free for the next ask or write.
C2_LockReleased ==
  /\ \A t \in Threads : ~ InBlock(t) => lock # t
  /\ (\A t \in Threads : ~ InBlock(t)) => lock = None

\* The transport has raised inside the block of one thread, and after that
\* another thread has taken the lock for its ask or write.
C2_Witness ==
  \E t, u \in Threads :
    /\ Over(t) /\ thr[t].locked
    /\ thr[t].result \in { TransportError("ask"), TransportError("write"),
                           TransportError("read_raw"), TransportError("close") }
    /\ thr[u].pc \in { "ask_call", "write_call" }
    /\ lock = u

\* C3: while disconnect() is in close(), from its start to its end, it holds
\* the lock and no other thread is inside a transport call or an exchange.
C3_CloseUnderLock ==
  \A t \in Threads :
    thr[t].pc \in { "close_call", "close_wait" } =>
      /\ lock = t
      /\ \A u \in Threads \ {t} : ~ InTransport(u) /\ ~ InExchange(u)

\* close() is running while a query that has passed its connected test waits
\* for the lock.
C3_Witness ==
  \E t, u \in Threads :
    /\ thr[t].pc = "close_wait"
    /\ thr[u].pc \in { "ask_lock", "write_lock", "data_lock" }

\* C4 (one thread): a connect() whose handshake succeeds opens the transport
\* only if there was no handle, asks *IDN? once and writes the commands of
\* configure() once, in this order; a connect() on a connected connection
\* makes no transport call, does not take the lock and leaves the handle
\* and the version as they were.
C4_ConnectOnce ==
  LET r == thr[1]
      opens == IF r.entry.scope = None THEN << [op |-> "open", command |-> ""] >>
               ELSE << >>
      idn == << [op |-> "ask", command |-> "*IDN?"] >>
      cfg == [i \in 1 .. Len(ConfigureCommands(family)) |->
                [op |-> "write", command |-> ConfigureCommands(family)[i]]]
  IN  r.api = "connect" =>
        /\ EntryConnected(1) =>
             /\ r.log = << >>
             /\ ~ r.locked
             /\ scope = r.entry.scope
             /\ firmware_version = r.entry.firmware_version
        /\ Over(1) /\ ~ EntryConnected(1) /\ firmware_version # NoVersion =>
             /\ Count(r.log, "*IDN?") = 1
             /\ Len(SelectSeq(r.log, LAMBDA e : e.op = "open")) = Len(opens)
             /\ \E n \in 1 .. Len(cfg) : r.log = opens \o idn \o SubSeq(cfg, 1, n)
             /\ r.result = Returned => r.log = opens \o idn \o cfg

\* A second connect() has returned on a connection that was connected.
C4_Witness ==
  /\ thr[1].api = "connect" /\ Over(1) /\ EntryConnected(1)
  /\ thr[1].result = Returned
  /\ calls >= 2

\* C5 (one thread): when disconnect() has returned, the handle and the
\* firmware version are absent (connected is false); on a connection that
\* had neither, it makes no transport call, never takes the lock and the two
\* stay absent all along.
C5_Disconnected ==
  LET r == thr[1]
  IN  r.api = "disconnect" =>
        /\ Over(1) /\ r.result = Returned =>
             scope = None /\ firmware_version = NoVersion
        /\ EntryDisconnected(1) =>
             /\ r.log = << >>
             /\ ~ r.locked
             /\ scope = None /\ firmware_version = NoVersion

\* disconnect() has returned on a connection that was connected.
C5_Witness ==
  /\ thr[1].api = "disconnect" /\ Over(1) /\ EntryConnected(1)
  /\ thr[1].result = Returned
  /\ thr[1].locked

\* C6: in every state, the firmware version is set exactly when there is a
\* handle on which the *IDN? handshake has completed.
C6_VersionIffHandshake ==
  firmware_version # NoVersion <=> (scope # None /\ scope \in shaken)

\* Whether a call needs the instrument: a query for no channel does not.
NeedsInstrument(r) ==
  \/ r.api \in { "ask", "write", "wait" }
  \/ r.api \in { "get_waveforms", "stamp_acquisition" } /\ r.request # << >>

\* C7 (one thread): ask, write, wait, get_waveforms and stamp_acquisition
\* called on a connection that is not connected (no handle, or no completed
\* handshake) make no transport call and end with an error.
C7_NotConnectedFailsFast ==
  LET r == thr[1]
  IN  NeedsInstrument(r) /\ ~ EntryConnected(1) =>
        /\ TransportCalls(r.log) = << >>
        /\ Over(1) => r.result.type # "return"

\* C8 (one thread): the timeout outcome of wait(busy=True) is an error that
\* carries the elapsed duration.
C8_TimedOutCarriesElapsed ==
  LET r == thr[1]
  IN  r.api = "wait" /\ r.busy /\ Over(1) /\ r.log # << >>
        /\ r.result.type = "Vxi11Exception" /\ r.result.note = "wait"
        => "elapsed" \in DOMAIN r.result

\* The polls of wait() recorded in the log.
Polls(n) == [i \in 1 .. n |-> [op |-> "ask", command |-> "*ESR?"]]

\* C9 (one thread), as long as at most MaxPolls polls are made: in
\* wait(busy=True) the transport sees one *OPC write and then only *ESR?
\* queries; a poll that reports an odd value makes wait return at once, a poll
\* that reports an even value before the deadline is followed by another one;
\* so when k polls were even before the deadline and poll k + 1 is odd, wait
\* has returned after one *OPC and k + 1 *ESR?.
C9_Counts ==
  LET r == thr[1]
  IN  r.api = "wait" /\ r.busy /\ r.polls <= MaxPolls /\ r.log # << >> =>
        \E n \in 0 .. MaxPolls :
          /\ r.log = << [op |-> "write", command |-> "*OPC"] >> \o Polls(n)
          /\ Over(1) /\ r.result = Returned => n = r.evens + 1

C9_Step ==
  LET r == thr[1]
      n == thr'[1]
  IN  r.api = "wait" /\ r.busy /\ r.pc = "wait_test" /\ IsIntLiteral(r.answer)
        /\ r.polls <= MaxPolls /\ n # r =>
        /\ IntOf(r.answer) % 2 = 1 => n.pc = "idle" /\ n.result = Returned
        /\ IntOf(r.answer) % 2 = 0 /\ now <= r.started + instrument_timeout \div MsPerSecond
             => n.pc = "wait_poll" /\ n.evens = r.evens + 1

C9_PollUntilOdd == [] C9_Counts /\ [][C9_Step]_vars

\* One poll was even before the deadline, the second was odd: wait returned.
C9_Witness ==
  /\ thr[1].api = "wait" /\ thr[1].busy /\ Over(1)
  /\ thr[1].result = Returned
  /\ thr[1].evens = 1 /\ thr[1].polls = 2

\* C10 (one thread, a clock that advances, polls that return): the deadline
\* of wait(busy=True) is the clock at its start plus instrument_timeout and
\* stays that; a poll that finds the bit unset makes wait fail with the
\* timeout error exactly when the clock is past the deadline; and every
\* wait(busy=True) ends.
C10_Deadline ==
  LET r == thr[1]
  IN  r.api = "wait" /\ r.busy /\ ~ Over(1) /\ r.pc # "wait" =>
        r.timeout = r.started + instrument_timeout \div MsPerSecond

C10_Step ==
  LET r == thr[1]
      n == thr'[1]
  IN  r.api = "wait" /\ r.busy /\ r.pc = "wait_test" /\ IsIntLiteral(r.answer)
        /\ IntOf(r.answer) % 2 = 0 /\ n # r =>
        (now > r.started + instrument_timeout \div MsPerSecond
           <=> n.pc = "idle" /\ n.result = WaitTimeout)

C10_Terminates ==
  /\ [] C10_Deadline
  /\ [][C10_Step]_vars
  /\ (thr[1].api = "wait" /\ thr[1].busy /\ ~ Over(1)) ~> Over(1)

\* wait has failed with the timeout error after a poll before the deadline.
C10_Witness ==
  /\ thr[1].api = "wait" /\ thr[1].busy /\ Over(1)
  /\ thr[1].result = WaitTimeout
  /\ thr[1].evens >= 1

\* wait(busy=True) has failed with the timeout error.
TimedOut(t) ==
  /\ thr[t].api = "wait" /\ thr[t].busy /\ Over(t)
  /\ thr[t].result = WaitTimeout

\* C11 (one thread): when wait(busy=True) has failed with the timeout error
\* the lock is free, the handle and the firmware version are those the call
\* found, and connected is true.
C11_State ==
  TimedOut(1) =>
    /\ lock = None
    /\ scope = thr[1].entry.scope /\ scope # None
    /\ firmware_version = thr[1].entry.firmware_version
    /\ firmware_version # NoVersion

\* ... an ask or a write called next finds the connection connected and the
\* lock free ...
C11_Next ==
  TimedOut(1) /\ thr'[1] # thr[1] /\ thr'[1].api \in { "ask", "write" } =>
    /\ lock' = None
    /\ thr'[1].entry.scope # None
    /\ thr'[1].entry.firmware_version # NoVersion

\* ... and an ask or a write called on a connected connection makes its one
\* transport call under the lock and ends as that call ends.
C11_Proceeds ==
  LET r == thr[1]
  IN  r.api \in { "ask", "write" } /\ EntryConnected(1) /\ Over(1) =>
        /\ Len(r.log) = 1 /\ r.log[1].op = r.api
        /\ r.locked
        /\ r.result \in { Returned, TransportError(r.api) }

C11_UsableAfterTimeout == [] (C11_State /\ C11_Proceeds) /\ [][C11_Next]_vars

\* The wait has timed out after a poll; the connection is as it was.
C11_Witness ==
  /\ TimedOut(1)
  /\ thr[1].locked /\ lock = None
  /\ scope # None /\ firmware_version # NoVersion

\* C12 (one thread): wait(busy=False) on a connected connection makes one
\* transport call, scope.ask("RUNS;*OPC?"), under the lock, and ends when it
\* ends: no *OPC write, no *ESR? poll, no deadline computed, and no use of
\* instrument_timeout (which may be absent).
C12_HardwareWait ==
  LET r == thr[1]
      exchange == << [op |-> "ask", command |-> "RUNS;*OPC?"] >>
  IN  r.api = "wait" /\ ~ r.busy /\ EntryConnected(1) =>
        /\ r.log \in { << >>, exchange }
        /\ r.polls = 0 /\ r.timeout = 0
        /\ InTransport(1) => lock = 1 /\ r.log = exchange
        /\ Over(1) =>
             /\ r.log = exchange
             /\ r.result \in { Returned, TransportError("ask") }

\* wait(busy=False) has returned on a connection built without a timeout.
C12_Witness ==
  /\ thr[1].api = "wait" /\ ~ thr[1].busy /\ Over(1)
  /\ thr[1].result = Returned
  /\ instrument_timeout = Absent
  /\ thr[1].log # << >>

\* The samples the channel at position i (from 1) of n channels is to get
\* from a payload: payload[i], payload[i + n], ..., one of each full group.
Strided(payload, i, n, dt) ==
  fromstring([k \in 1 .. Len(payload) \div n |-> payload[i + (k - 1) * n]], dt)

\* C13: for a well-formed block with a payload of L bytes and N >= 1
\* channels, fused parsing gives the channel at position i the floor(L / N)
\* samples payload[i], payload[i + N], ...: the last partial group is dropped.
C13_FullGroupsOnly ==
  Done("parse_waveform_string") /\ wave.channels # << >> =>
    \A p \in Payloads, t \in Trailers :
      wave.string = Frame(p) \o t =>
        /\ wave.out.type = "return"
        /\ \A i \in 1 .. Len(wave.channels) :
             wave.out.value[wave.channels[i]] =
               Strided(p, i, Len(wave.channels), dtype(family))

\* C14: a payload of K >= 0 bytes, framed and optionally followed by a
\* terminator, parsed for one channel, gives that channel exactly the K bytes.
C14_RoundTrip ==
  Done("parse_waveform_string") /\ Len(wave.channels) = 1 =>
    \A p \in Payloads, t \in Trailers :
      wave.string = Frame(p) \o t =>
        /\ wave.out.type = "return"
        /\ DOMAIN wave.out.value = { wave.channels[1] }
        /\ wave.out.value[wave.channels[1]] = fromstring(p, dtype(family))

\* A full payload followed by the terminator was parsed for one channel.
C14_Witness ==
  /\ Done("parse_waveform_string") /\ Len(wave.channels) = 1
  /\ \E p \in Payloads :
       /\ Len(p) = MaxLen
       /\ wave.string = Frame(p) \o Bytes(<< "\n" >>)
       /\ wave.out.value[wave.channels[1]] = fromstring(p, dtype(family))

\* What the header of a block declares, read as the spec's codec reads it.
HeaderDigit(string) == Len(string) >= 2 /\ IsDigit(Chr(string[2]))
LengthField(string) == PySlice(string, 2, 2 + DigitVal(Chr(string[2])), 1)
FieldDecimal(string) ==
  /\ Len(LengthField(string)) = DigitVal(Chr(string[2]))
  /\ LengthField(string) # << >>
  /\ \A k \in 1 .. Len(LengthField(string)) : IsDigit(Chr(LengthField(string)[k]))
Following(string) == Len(string) - 2 - DigitVal(Chr(string[2]))

Malformed(string) ==
  \/ ~ HeaderDigit(string)
  \/ ~ FieldDecimal(string)
  \/ Following(string) < DigitsVal(Text(LengthField(string)))

\* C15: parsing a block for N >= 1 channels fails, with no result, when the
\* length-of-length character is not a digit, the length field is not a
\* decimal number, or fewer bytes follow the header than declared.
C15_FramingError ==
  Done("parse_waveform_string") /\ wave.channels # << >> /\ wave.string # << >>
    /\ Malformed(wave.string)
    => wave.out.type \notin { "return" }

\* C16: per-channel parsing (RTMConnection) fails, with no partial mapping,
\* when the number of payloads is not the number of channels.
C16_ChannelCountMismatch ==
  Done("parse_waveform_string") /\ family = "RTM"
    /\ Len(wave.strings) # Len(wave.channels)
    => wave.out.type \notin { "return", "none" }

\* The smallest and the largest sample of a type, and the value in
\* divisions of a raw sample r: (r - median) * 10 / (max - min), with
\* median = (min + max) / 2.
Lowest(dt) == IF dt = "int8" THEN 0 - 128 ELSE 0
Highest(dt) == IF dt = "int8" THEN 127 ELSE 255
Divisions(dt, r) == Rat((2 * r - Lowest(dt) - Highest(dt)) * 10, 2 * (Highest(dt) - Lowest(dt)))

\* C17: for every raw sample r of the signed or unsigned 8-bit type,
\* convert_waveforms gives (r - median) * 10 / (max - min) without scales and
\* positions (-5 for the smallest sample, +5 for the largest), that value
\* times the scale with scales only, and that value times the scale minus
\* position * scale with scales and positions.
C17_Conversion ==
  Done("convert_waveforms") /\ (wave.positions.given => wave.scales.given) =>
    /\ wave.out.type = "return"
    /\ DOMAIN wave.out.value = DOMAIN wave.data
    /\ \A c \in DOMAIN wave.data :
         /\ Len(wave.out.value[c]) = Len(wave.data[c])
         /\ \A k \in 1 .. Len(wave.data[c]) :
              LET dt == dtype(family)
                  r == wave.data[c][k]
                  v == wave.out.value[c][k]
                  scale == IF wave.scales.given THEN wave.scales.map[c] ELSE Rat(1, 1)
                  position == IF wave.positions.given THEN wave.positions.map[c]
                              ELSE Rat(0, 1)
              IN  /\ RatEq(v, RatSub(RatMul(Divisions(dt, r), scale),
                                     RatMul(position, scale)))
                  /\ ~ wave.scales.given /\ r = Lowest(dt) => RatEq(v, Rat(0 - 5, 1))
                  /\ ~ wave.scales.given /\ r = Highest(dt) => RatEq(v, Rat(5, 1))

\* The smallest signed sample was converted to volts with a scale and a
\* position.
C17_Witness ==
  /\ Done("convert_waveforms") /\ dtype(family) = "int8"
  /\ wave.scales.given /\ wave.positions.given
  /\ DOMAIN wave.data = {1}
  /\ wave.data[1] = << 0 - 128 >>
  /\ wave.scales.map[1] = Rat(2, 1) /\ wave.positions.map[1] = Rat(3, 2)
  /\ RatEq(wave.out.value[1][1], Rat(0 - 13, 1))

\* C18 (one thread): for every family, a connect() that establishes the
\* connection writes the family's data-format command once, after the
\* handshake; a connect() on a connected connection does not write it.
C18_DataFormatOnce ==
  LET r == thr[1]
      format == [op |-> "write", command |-> "FORMAT:DATA " \o data_format(family)]
      sent == { i \in 1 .. Len(r.log) : r.log[i] = format }
  IN  r.api = "connect" /\ Over(1) =>
        /\ ~ EntryConnected(1) /\ r.result = Returned =>
             /\ Cardinality(sent) = 1
             /\ \A i \in sent : \E j \in 1 .. i - 1 : r.log[j].command = "*IDN?"
        /\ EntryConnected(1) => sent = {}

\* A call of stamp_acquisition with channels to read and single=True.
SingleStamp(r) == r.api = "stamp_acquisition" /\ r.single /\ r.request # << >>

\* The transport calls of the waveform query.
IsDataQuery(e) ==
  \/ e.op = "read_raw"
  \/ e.op = "write" /\ \E ch \in 1 .. 4 : e.command = DataCommand(ch)

Stamped(log) == \E j \in 1 .. Len(log) : log[j].op = "time"

\* C19 (one thread): in stamp_acquisition with channels and single=True the
\* first transport call is the RUNS write; the timestamp is taken after it
\* and only once; the waveform query comes after the timestamp ...
C19_Order ==
  LET r == thr[1]
  IN  SingleStamp(r) =>
        /\ r.log # << >> => r.log[1] = [op |-> "write", command |-> "RUNS"]
        /\ \A i \in 1 .. Len(r.log) :
             /\ r.log[i].op = "time" =>
                  i > 1 /\ \A j \in 1 .. Len(r.log) : r.log[j].op = "time" => j = i
             /\ IsDataQuery(r.log[i]) => \E j \in 1 .. i - 1 : r.log[j].op = "time"
        /\ ~ Stamped(r.log) /\ Over(1) /\ r.polls <= MaxPolls /\ Len(r.log) < MaxLog
             => r.result.type # "return"

\* ... and the step to the timestamp is the successful return of the wait: a
\* poll that found the bit set, or the answer to "RUNS;*OPC?"; a wait that
\* raises ends the call.
C19_Step ==
  LET r == thr[1]
      n == thr'[1]
  IN  SingleStamp(n) /\ n.pc = "stamp_time" /\ r.pc # "stamp_time" =>
        \/ r.busy /\ r.pc = "wait_test" /\ IsIntLiteral(r.answer)
             /\ IntOf(r.answer) % 2 = 1
        \/ ~ r.busy /\ r.pc = "ask_wait" /\ r.command = "RUNS;*OPC?"

C19_WaitBeforeStamp == [] C19_Order /\ [][C19_Step]_vars

\* The acquisition was started, waited for with one poll, stamped and read.
C19_Witness ==
  /\ SingleStamp(thr[1]) /\ thr[1].busy /\ Over(1)
  /\ thr[1].result = Returned
  /\ thr[1].polls = 1
  /\ Stamped(thr[1].log)
  /\ IsDataQuery(thr[1].log[Len(thr[1].log)])

\* The commands that start a single acquisition: RUNS alone, or RUNS in the
\* compound command of the hardware wait.
StartsAcquisition(e) ==
  e.op \in { "write", "ask" } /\ e.command \in { "RUNS", "RUNS;*OPC?" }

\* C20 (one thread): a call of stamp_acquisition with channels and
\* single=True that gets to its timestamp has sent exactly one RUNS to the
\* transport, with busy=True and with busy=False.
C20_OneAcquisition ==
  LET r == thr[1]
  IN  SingleStamp(r) /\ Stamped(r.log) =>
        Cardinality({ i \in 1 .. Len(r.log) : StartsAcquisition(r.log[i]) }) = 1

\* C21: with disconnect() running next to ask and write, a call that has
\* passed its connected test never makes its transport call on a handle that
\* was closed, and never finds the handle cleared: it makes its exchange
\* before the close or fails with the not-connected error.  (The other
\* thread is in a disconnect() whose close() has not raised, or has made one.)
C21_NoCallOnClosedHandle ==
  \A t \in Threads :
    thr[t].api \in { "ask", "write" }
      /\ (\E u \in Threads \ {t} :
            /\ thr[u].api = "disconnect" /\ thr[u].log # << >>
            /\ thr[u].result # TransportError("close")) =>
      /\ thr[t].pc \in { "ask_wait", "write_wait" } => thr[t].handle \notin closed
      /\ Over(t) => thr[t].result # AttributeError

\* C22: when the only calls made are connect() by two threads, one each, the
\* transport is opened at most once, and *IDN? is asked and the commands of
\* configure() written at most once in total.
C22_ConnectRace ==
  LET callers == { t \in Threads : thr[t].api = "connect" }
      asked(t) == Count(thr[t].log, "*IDN?")
      cleared(t) == Count(thr[t].log, "*CLS")
  IN  calls = Cardinality(callers) /\ (\A t \in Threads \ callers : thr[t].api = "none") =>
        /\ opened <= 1
        /\ \A t, u \in callers : t # u => asked(t) + asked(u) <= 1
        /\ \A t, u \in callers : t # u => cleared(t) + cleared(u) <= 1

\* ------------------------------------------------ the lock under fairness
\* The steps of thread t that take the lock and those it makes holding it:
\* each `with self.lock` statement and the transport calls in its body.
Locking(t) ==
  \/ ask_lock(t) \/ ask_scope_ask(t) \/ ask_return(t)
  \/ write_lock(t) \/ write_scope_write(t) \/ write_return(t)
  \/ get_firmware_version_lock(t) \/ get_firmware_version_ask(t)
  \/ get_firmware_version_return(t)
  \/ disconnect_lock(t) \/ disconnect_close(t) \/ disconnect_closed(t)
  \/ get_waveform_string_lock(t) \/ get_waveform_string_write(t)
  \/ get_waveform_string_written(t) \/ get_waveform_string_read(t)
  \/ get_waveform_string_return(t)

\* Several threads share a connection; the count of public calls starts where
\* FairCalls of the MaxCalls are left.
InitFair ==
  /\ family \in Families
  /\ instrument_timeout = MsPerSecond * MaxTimeout
  /\ scope = None
  /\ firmware_version = NoVersion
  /\ lock = None
  /\ opened = 0
  /\ closed = {}
  /\ shaken = {}
  /\ now = 0
  /\ calls = MaxCalls - FairCalls
  /\ thr = [t \in Threads |-> Idle]
  /\ wave = NoWave

\* Fair scheduling: a thread that can again and again take the lock, or go on
\* inside its block, does so.
SpecFair == InitFair /\ [][Next]_vars /\ \A t \in Threads : SF_vars(Locking(t))

\* At a `with self.lock` statement, the lock not yet taken.
AtLock(t) == thr[t].pc \in { "ask_lock", "write_lock", "idn_lock", "close_lock", "data_lock" }

\* C23: no thread reaches a `with self.lock` statement holding the lock, the
\* lock is held only inside a block; under fair scheduling a thread waiting
\* for the lock gets it and a thread holding it gives it back: no deadlock.
C23_NoDeadlock ==
  /\ [](\A t \in Threads : AtLock(t) => lock # t)
  /\ [](\A t \in Threads : lock = t => InBlock(t))
  /\ \A t \in Threads : AtLock(t) ~> (lock = t)
  /\ \A t \in Threads : (lock = t) ~> (lock = None)

\* One thread waits at a `with self.lock` statement for the lock another holds.
C23_Witness ==
  \E t, u \in Threads : t # u /\ AtLock(t) /\ lock = u /\ InBlock(u)

====
